---- MODULE Spec2Model ----
(***************************************************************************)
(* Model of extract_slides.py: a one-shot batch transform that reads an    *)
(* exported HTML document, collects its style blocks and font-face rules,  *)
(* cuts one slide-container element out of every '<body>' section with a   *)
(* hand-rolled depth-counted scan, and writes a print-ready document.      *)
(*                                                                         *)
(* Text is a sequence of one-character strings.  Offsets are 0-based, as   *)
(* in the source: the character at offset k of s is s[k + 1].              *)
(***************************************************************************)
EXTENDS Integers, Sequences, FiniteSets

(***************************************************************************)
(* String primitives of the Python runtime used by the program.            *)
(***************************************************************************)

\* s[a:b] for 0 <= a, b
Slice(s, a, b) == SubSeq(s, a + 1, IF b > Len(s) THEN Len(s) ELSE b)

\* s[k:].startswith(pat)
StartsAt(s, pat, k) ==
    /\ k >= 0
    /\ k + Len(pat) <= Len(s)
    /\ \A j \in 1..Len(pat) : s[k + j] = pat[j]

SetMin(S) == CHOOSE m \in S : \A n \in S : m <= n

\* s.find(pat, start): lowest offset >= start where pat occurs, else -1
Find(s, pat, start) ==
    LET hits == {k \in start..(Len(s) - Len(pat)) : StartsAt(s, pat, k)}
    IN  IF hits = {} THEN -1 ELSE SetMin(hits)

\* pat in s
Contains(s, pat) == Find(s, pat, 0) >= 0

\* s.split(sep): non-overlapping occurrences, left to right
RECURSIVE Split(_, _)
Split(s, sep) ==
    LET f == Find(s, sep, 0)
    IN  IF f < 0 THEN <<s>>
        ELSE <<Slice(s, 0, f)>> \o Split(Slice(s, f + Len(sep), Len(s)), sep)

\* sep.join(parts)
RECURSIVE Join(_, _)
Join(sep, parts) ==
    IF parts = <<>> THEN <<>>
    ELSE IF Len(parts) = 1 THEN parts[1]
    ELSE parts[1] \o sep \o Join(sep, Tail(parts))

\* concatenation of a sequence of texts
Flatten(parts) == Join(<<>>, parts)

Newline == <<"\n">>

Whitespace == {" ", "\n", "\t", "\r"}

\* s.strip(): leading and trailing whitespace removed
RECURSIVE LStrip(_)
LStrip(s) == IF s # <<>> /\ s[1] \in Whitespace THEN LStrip(Tail(s)) ELSE s

RECURSIVE RStrip(_)
RStrip(s) ==
    IF s # <<>> /\ s[Len(s)] \in Whitespace THEN RStrip(SubSeq(s, 1, Len(s) - 1)) ELSE s

Strip(s) == RStrip(LStrip(s))

\* The character references html.unescape replaces, as <<reference, text>>.
\* Only the references that occur in the modelled documents are listed.
Entities ==
    { <<<<"&","l","t",";">>, <<"<">>>>, <<<<"&","g","t",";">>, <<">">>>>,
      <<<<"&","a","m","p",";">>, <<"&">>>>, <<<<"&","q","u","o","t",";">>, <<"\"">>>> }

\* html.unescape(s): one left-to-right pass, replaced text is not rescanned
RECURSIVE Unescape(_)
Unescape(s) ==
    IF s = <<>> THEN <<>>
    ELSE LET es == {e \in Entities : StartsAt(s, e[1], 0)}
         IN  IF es = {} THEN <<s[1]>> \o Unescape(Tail(s))
             ELSE LET e == CHOOSE x \in es : TRUE
                  IN  e[2] \o Unescape(Slice(s, Len(e[1]), Len(s)))

(***************************************************************************)
(* Literals of the program.                                                *)
(***************************************************************************)

BodyDelim == <<"<","b","o","d","y",">">>
Marker == <<"s","l","i","d","e","-","c","o","n","t","a","i","n","e","r">>
ContainerOpen == <<"<","d","i","v"," ","c","l","a","s","s","=","\"","s","l","i","d","e","-","c","o","n","t","a","i","n","e","r">>
DivOpen == <<"<","d","i","v">>
DivClose == <<"<","/","d","i","v",">">>
DivOpenSkip == 4
DivCloseLen == 6
MinStyleLen == 100
StyleOpen == <<"<","s","t","y","l","e">>
StyleClose == <<"<","/","s","t","y","l","e",">">>
FontFaceOpen == <<"@","f","o","n","t","-","f","a","c","e","{">>
\* the file names of __main__; the input name is shortened
InputPath == "Genspark.html"
OutputPath == "slides-export-plagiat.html"

(***************************************************************************)
(* re.findall over the document.                                           *)
(***************************************************************************)

\* re.findall(r'<style[^>]*>(.*?)</style>', s, re.DOTALL): the inner texts.
\* A '<style' with no '>' after it, or no '</style>' after that '>', is no
\* match and the search resumes one character further on.
RECURSIVE FindAllStyle(_)
FindAllStyle(s) ==
    LET o == Find(s, StyleOpen, 0)
        g == IF o < 0 THEN -1 ELSE Find(s, <<">">>, o + Len(StyleOpen))
        c == IF g < 0 THEN -1 ELSE Find(s, StyleClose, g + 1)
    IN  IF o < 0 THEN <<>>
        ELSE IF c < 0 THEN FindAllStyle(Slice(s, o + 1, Len(s)))
        ELSE <<Slice(s, g + 1, c)>>
             \o FindAllStyle(Slice(s, c + Len(StyleClose), Len(s)))

\* re.findall(r'@font-face\{[^}]+\}', s): the whole rules; the braces must
\* enclose at least one character.
RECURSIVE FindAllFontFace(_)
FindAllFontFace(s) ==
    LET o == Find(s, FontFaceOpen, 0)
        c == IF o < 0 THEN -1 ELSE Find(s, <<"}">>, o + Len(FontFaceOpen))
    IN  IF o < 0 THEN <<>>
        ELSE IF c < 0 \/ c = o + Len(FontFaceOpen)
             THEN FindAllFontFace(Slice(s, o + 1, Len(s)))
        ELSE <<Slice(s, o, c + 1)>> \o FindAllFontFace(Slice(s, c + 1, Len(s)))

(***************************************************************************)
(* Input documents.                                                        *)
(***************************************************************************)

MaxTokens == 5
MaxSections == 2
MaxStyleBlocks == 3

TokContainer == ContainerOpen \o <<"\"",">">>
TokDiv == DivOpen \o <<">">>
TokEscClose == <<"&","l","t",";","/","d","i","v","&","g","t",";">>

Tokens == {BodyDelim, TokContainer, TokDiv, DivClose, TokEscClose}

SeqsUpTo(S, n) == UNION {[1..k -> S] : k \in 0..n}

\* every text made of at most MaxTokens tokens
TokenDocs == {Flatten(ts) : ts \in SeqsUpTo(Tokens, MaxTokens)}

\* a container holding one nested div, closed by its own '</div>'
WellFormedSection == TokContainer \o TokDiv \o <<"x">> \o DivClose \o DivClose
\* the same followed by one more '</div>' of an enclosing element
EnclosedSection == <<" ">> \o WellFormedSection \o DivClose \o <<"\n">>
\* a container that is opened and never closed
UnclosedSection == TokContainer \o TokDiv \o <<"y">> \o DivClose
\* a section that mentions the class name but holds no container tag
MarkerOnlySection == <<"<","p"," ","c","l","a","s","s","=","\"">> \o Marker \o <<"\"",">">> \o DivClose
\* a section that is no slide at all
ScriptSection == <<"<","s","c","r","i","p","t",">">>
\* a container with no nested div, followed by one more '</div>'
SimpleSection == TokContainer \o <<"z">> \o DivClose \o DivClose

SectionPool ==
    {WellFormedSection, EnclosedSection, UnclosedSection, MarkerOnlySection,
     ScriptSection, SimpleSection}

Preambles == {<<"<","h","e","a","d",">">>, EnclosedSection}

\* a preamble followed by 1..MaxSections '<body>' sections of the pool
SectionDocs ==
    {pre \o Flatten([k \in 1..Len(ss) |-> BodyDelim \o ss[k]]) :
        pre \in Preambles, ss \in SeqsUpTo(SectionPool, MaxSections) \ {<<>>}}

Fill(c, n) == [k \in 1..n |-> c]

FontFaceRule == FontFaceOpen \o <<"f">> \o <<"}">>

StylePool ==
    {Fill("a", MinStyleLen + 1), Fill("b", MinStyleLen + 1),
     Fill("a", MinStyleLen), FontFaceRule \o Fill("c", 4)}

\* at most MaxStyleBlocks style elements, one after the other
StyleDocs ==
    {Flatten([k \in 1..Len(ts) |-> StyleOpen \o <<">">> \o ts[k] \o StyleClose]) :
        ts \in SeqsUpTo(StylePool, MaxStyleBlocks)}

Docs == TokenDocs \cup SectionDocs \cup StyleDocs

(***************************************************************************)
(* State.                                                                  *)
(***************************************************************************)

VARIABLES
    exists,          \* input_file.exists()
    file,            \* text of the input file
    outfile,         \* the output file: [present, text]
    stdout,          \* lines printed so far
    pc,              \* position in the program
    exit_code,       \* process exit status, -1 while running
    content,         \* extract_slides: content
    font_faces,
    style_matches,
    seen_styles,
    unique_styles,
    si,              \* index of the next element of style_matches
    all_styles,
    body_splits,
    i,               \* index of the next element of body_splits[1:]
    slide_html,
    container_start,
    div_count,
    pos,
    container_end,
    slides,
    origin,          \* origin[k]: the value of i when slides[k] was appended
    output_html,
    ai               \* index of the next element of slides to assemble

vars ==
    <<exists, file, outfile, stdout, pc, exit_code, content, font_faces,
      style_matches, seen_styles, unique_styles, si, all_styles, body_splits,
      i, slide_html, container_start, div_count, pos, container_end, slides,
      origin, output_html, ai>>

fileVars == <<exists, file>>
styleVars == <<font_faces, style_matches, seen_styles, unique_styles, si, all_styles>>
scanVars == <<slide_html, container_start, div_count, pos, container_end>>

OldOutput == <<"o","l","d">>

Init ==
    /\ exists \in BOOLEAN
    /\ file \in (IF exists THEN Docs ELSE {<<>>})
    /\ outfile \in {[present |-> FALSE, text |-> <<>>],
                    [present |-> TRUE, text |-> OldOutput]}
    /\ stdout = <<>>
    /\ pc = "main"
    /\ exit_code = -1
    /\ content = <<>>
    /\ font_faces = <<>>
    /\ style_matches = <<>>
    /\ seen_styles = {}
    /\ unique_styles = <<>>
    /\ si = 1
    /\ all_styles = <<>>
    /\ body_splits = <<>>
    /\ i = 1
    /\ slide_html = <<>>
    /\ container_start = -1
    /\ div_count = 0
    /\ pos = 0
    /\ container_end = -1
    /\ slides = <<>>
    /\ origin = <<>>
    /\ output_html = <<>>
    /\ ai = 1

Line(kind, path, n) == [kind |-> kind, path |-> path, n |-> n]

(***************************************************************************)
(* __main__: the missing-file check.                                       *)
(***************************************************************************)

\* MainMissing without the exit(1): the run goes on into extract_slides
MainMissingNoExit ==
    /\ pc = "main"
    /\ ~exists
    /\ stdout' = Append(stdout, Line("Error", InputPath, 0))
    /\ pc' = "read"
    /\ UNCHANGED <<fileVars, outfile, exit_code, content, styleVars,
                   body_splits, i, scanVars, slides, origin, output_html, ai>>

\* if not input_file.exists(): print(f"Error: ... not found"); exit(1)
MainMissing ==
    /\ pc = "main"
    /\ ~exists
    /\ stdout' = Append(stdout, Line("Error", InputPath, 0))
    /\ exit_code' = 1
    /\ pc' = "exit"
    /\ UNCHANGED <<fileVars, outfile, content, styleVars, body_splits, i,
                   scanVars, slides, origin, output_html, ai>>

\* the call extract_slides(input_file, output_file)
MainCall ==
    /\ pc = "main"
    /\ exists
    /\ pc' = "read"
    /\ UNCHANGED <<fileVars, outfile, stdout, exit_code, content, styleVars,
                   body_splits, i, scanVars, slides, origin, output_html, ai>>

(***************************************************************************)
(* extract_slides: reading and the style deduplicator.                     *)
(***************************************************************************)

\* f.read(), then the two re.findall calls and the empty accumulators
ReadInput ==
    /\ pc = "read"
    /\ content' = file
    /\ font_faces' = FindAllFontFace(file)
    /\ style_matches' = FindAllStyle(file)
    /\ seen_styles' = {}
    /\ unique_styles' = <<>>
    /\ si' = 1
    /\ pc' = "styles"
    /\ UNCHANGED <<fileVars, outfile, stdout, exit_code, all_styles,
                   body_splits, i, scanVars, slides, origin, output_html, ai>>

\* KeepStyle without the seen-before test
KeepStyleNoSeen(style, seen) == Len(style) > MinStyleLen

\* KeepStyle with >= in place of >
KeepStyleAtLeast(style, seen) == style \notin seen /\ Len(style) >= MinStyleLen

\* if style not in seen_styles and len(style) > 100
KeepStyle(style, seen) == style \notin seen /\ Len(style) > MinStyleLen

\* one iteration of: for style in style_matches
StyleStep ==
    /\ pc = "styles"
    /\ si <= Len(style_matches)
    /\ LET style == style_matches[si]
       IN  IF KeepStyle(style, seen_styles)
           THEN /\ seen_styles' = seen_styles \cup {style}
                /\ unique_styles' = Append(unique_styles, style)
           ELSE UNCHANGED <<seen_styles, unique_styles>>
    /\ si' = si + 1
    /\ UNCHANGED <<fileVars, outfile, stdout, pc, exit_code, content,
                   font_faces, style_matches, all_styles, body_splits, i,
                   scanVars, slides, origin, output_html, ai>>

\* the whole loop of the deduplicator as a function of the matches
RECURSIVE DedupFrom(_, _, _)
DedupFrom(matches, seen, unique) ==
    IF matches = <<>> THEN unique
    ELSE IF KeepStyle(matches[1], seen)
         THEN DedupFrom(Tail(matches), seen \cup {matches[1]},
                        Append(unique, matches[1]))
         ELSE DedupFrom(Tail(matches), seen, unique)

DedupStyles(matches) == DedupFrom(matches, {}, <<>>)

(***************************************************************************)
(* extract_slides: the section splitter.                                   *)
(***************************************************************************)

\* Sections without the [1:]: the text before the first '<body>' is visited
SectionsAll(splits) == splits

\* body_splits[1:], the sections the loop visits
Sections(splits) == Tail(splits)

\* end of the style loop: all_styles = '\n'.join(unique_styles),
\* body_splits = content.split('<body>'), slides = []
SplitBody ==
    /\ pc = "styles"
    /\ si > Len(style_matches)
    /\ all_styles' = Join(Newline, unique_styles)
    /\ body_splits' = Split(content, BodyDelim)
    /\ slides' = <<>>
    /\ origin' = <<>>
    /\ i' = 1
    /\ pc' = "sections"
    /\ UNCHANGED <<fileVars, outfile, stdout, exit_code, content, font_faces,
                   style_matches, seen_styles, unique_styles, si, scanVars,
                   output_html, ai>>

\* if 'slide-container' not in section: continue
SkipNoMarker ==
    /\ pc = "sections"
    /\ i <= Len(Sections(body_splits))
    /\ ~Contains(Sections(body_splits)[i], Marker)
    /\ i' = i + 1
    /\ UNCHANGED <<fileVars, outfile, stdout, pc, exit_code, content,
                   styleVars, body_splits, scanVars, slides, origin,
                   output_html, ai>>

\* slide_html = html.unescape(section); container_start = slide_html.find(...);
\* if container_start < 0: continue
SkipNoContainer ==
    /\ pc = "sections"
    /\ i <= Len(Sections(body_splits))
    /\ Contains(Sections(body_splits)[i], Marker)
    /\ slide_html' = Unescape(Sections(body_splits)[i])
    /\ container_start' = Find(slide_html', ContainerOpen, 0)
    /\ container_start' < 0
    /\ i' = i + 1
    /\ UNCHANGED <<fileVars, outfile, stdout, pc, exit_code, content,
                   styleVars, body_splits, div_count, pos, container_end,
                   slides, origin, output_html, ai>>

\* the container is found: div_count = 0, pos = container_start,
\* container_end = -1
BeginScan ==
    /\ pc = "sections"
    /\ i <= Len(Sections(body_splits))
    /\ Contains(Sections(body_splits)[i], Marker)
    /\ slide_html' = Unescape(Sections(body_splits)[i])
    /\ container_start' = Find(slide_html', ContainerOpen, 0)
    /\ container_start' >= 0
    /\ div_count' = 0
    /\ pos' = container_start'
    /\ container_end' = -1
    /\ pc' = "scan"
    /\ UNCHANGED <<fileVars, outfile, stdout, exit_code, content, styleVars,
                   body_splits, i, slides, origin, output_html, ai>>

(***************************************************************************)
(* extract_slides: the balanced container scan.                            *)
(***************************************************************************)

ScanState(dc, p, ce, brk) ==
    [div_count |-> dc, pos |-> p, container_end |-> ce, brk |-> brk]

\* ScanStep that takes the rest of the text when no '</div>' is left
ScanStepPartial(text, st) ==
    LET next_open == Find(text, DivOpen, st.pos)
        next_close == Find(text, DivClose, st.pos)
    IN  IF next_close < 0
        THEN ScanState(st.div_count, st.pos, Len(text), TRUE)
        ELSE IF next_open >= 0 /\ next_open < next_close
        THEN ScanState(st.div_count + 1, next_open + DivOpenSkip,
                       st.container_end, FALSE)
        ELSE IF st.div_count = 0
        THEN ScanState(st.div_count, st.pos, next_close + DivCloseLen, TRUE)
        ELSE ScanState(st.div_count - 1, next_close + DivCloseLen,
                       st.container_end, FALSE)

\* ScanStep that leaves the cursor on a nested '</div>' instead of past it
ScanStepNoAdvance(text, st) ==
    LET next_open == Find(text, DivOpen, st.pos)
        next_close == Find(text, DivClose, st.pos)
    IN  IF next_close < 0
        THEN ScanState(st.div_count, st.pos, st.container_end, TRUE)
        ELSE IF next_open >= 0 /\ next_open < next_close
        THEN ScanState(st.div_count + 1, next_open + DivOpenSkip,
                       st.container_end, FALSE)
        ELSE IF st.div_count = 0
        THEN ScanState(st.div_count, st.pos, next_close + DivCloseLen, TRUE)
        ELSE ScanState(st.div_count - 1, next_close, st.container_end, FALSE)

\* the body of: while pos < len(slide_html); brk is TRUE after a break
ScanStep(text, st) ==
    LET next_open == Find(text, DivOpen, st.pos)
        next_close == Find(text, DivClose, st.pos)
    IN  IF next_close < 0
        THEN ScanState(st.div_count, st.pos, st.container_end, TRUE)
        ELSE IF next_open >= 0 /\ next_open < next_close
        THEN ScanState(st.div_count + 1, next_open + DivOpenSkip,
                       st.container_end, FALSE)
        ELSE IF st.div_count = 0
        THEN ScanState(st.div_count, st.pos, next_close + DivCloseLen, TRUE)
        ELSE ScanState(st.div_count - 1, next_close + DivCloseLen,
                       st.container_end, FALSE)

\* one iteration of the while loop
ScanIter ==
    /\ pc = "scan"
    /\ pos < Len(slide_html)
    /\ LET st == ScanStep(slide_html,
                          ScanState(div_count, pos, container_end, FALSE))
       IN  /\ div_count' = st.div_count
           /\ pos' = st.pos
           /\ container_end' = st.container_end
           /\ pc' = IF st.brk THEN "endscan" ELSE "scan"
    /\ UNCHANGED <<fileVars, outfile, stdout, exit_code, content, styleVars,
                   body_splits, i, slide_html, container_start, slides,
                   origin, output_html, ai>>

\* the while condition is false: the cursor reached the end of the text
ScanExhausted ==
    /\ pc = "scan"
    /\ pos >= Len(slide_html)
    /\ pc' = "endscan"
    /\ UNCHANGED <<fileVars, outfile, stdout, exit_code, content, styleVars,
                   body_splits, i, scanVars, slides, origin, output_html, ai>>

\* AddSlide that puts the fragment in front
AddSlideFront(list, fragment) == <<fragment>> \o list

\* slides.append(...)
AddSlide(list, fragment) == Append(list, fragment)

\* if container_end > container_start: slides.append(slide_content.strip())
AppendSlide ==
    /\ pc = "endscan"
    /\ container_end > container_start
    /\ slides' = AddSlide(slides, Strip(Slice(slide_html, container_start, container_end)))
    /\ origin' = Append(origin, i)
    /\ i' = i + 1
    /\ pc' = "sections"
    /\ UNCHANGED <<fileVars, outfile, stdout, exit_code, content, styleVars,
                   body_splits, scanVars, output_html, ai>>

\* container_end <= container_start: nothing is appended
DropSection ==
    /\ pc = "endscan"
    /\ ~(container_end > container_start)
    /\ i' = i + 1
    /\ pc' = "sections"
    /\ UNCHANGED <<fileVars, outfile, stdout, exit_code, content, styleVars,
                   body_splits, scanVars, slides, origin, output_html, ai>>

\* the scan of one section run to its end
RECURSIVE RunScan(_, _)
RunScan(text, st) ==
    IF st.brk \/ st.pos >= Len(text) THEN st ELSE RunScan(text, ScanStep(text, st))

\* what one section adds to slides: <<>> or one fragment
ExtractSection(section) ==
    IF ~Contains(section, Marker) THEN <<>>
    ELSE LET text == Unescape(section)
             start == Find(text, ContainerOpen, 0)
             st == RunScan(text, ScanState(0, start, -1, FALSE))
         IN  IF start < 0 THEN <<>>
             ELSE IF st.container_end > start
             THEN <<Strip(Slice(text, start, st.container_end))>>
             ELSE <<>>

\* slides after the loop over the given sections
RECURSIVE ExtractAll(_)
ExtractAll(secs) ==
    IF secs = <<>> THEN <<>>
    ELSE ExtractSection(secs[1]) \o ExtractAll(Tail(secs))

(***************************************************************************)
(* extract_slides: the document assembler.                                 *)
(***************************************************************************)

\* The fixed shell of the output up to the first slide.  The meta tags, the
\* title and the fixed print CSS are elided; they hold no div tag.
HeadText(fonts, styles) ==
    <<"<","!","D","O","C","T","Y","P","E"," ","h","t","m","l",">","\n","<","h","t","m","l"," ","l","a","n","g","=","\"","u","k","\"",">","\n","<","h","e","a","d",">","\n"," "," "," "," ","<","s","t","y","l","e",">","\n"," "," "," "," "," "," "," "," ">>
    \o Join(Newline, fonts)
    \o <<"\n"," "," "," "," "," "," "," "," ">>
    \o styles
    \o <<"\n"," "," "," "," ","<","/","s","t","y","l","e",">","\n","<","/","h","e","a","d",">","\n","<","b","o","d","y",">","\n"," "," "," "," ","<","b","u","t","t","o","n"," ","o","n","c","l","i","c","k","=","\"","w","i","n","d","o","w",".","p","r","i","n","t","(",")","\""," ","c","l","a","s","s","=","\"","p","r","i","n","t","-","b","t","n","\"",">","<","/","b","u","t","t","o","n",">","\n"," "," "," "," ","\n">>

WrapOpen == <<" "," "," "," ","<","d","i","v"," ","c","l","a","s","s","=","\"","s","l","i","d","e","\"",">","\n">>
WrapClose == <<"\n"," "," "," "," ","<","/","d","i","v",">","\n">>
TailText == <<"<","/","b","o","d","y",">","\n","<","/","h","t","m","l",">">>

\* f'    <div class="slide">\n{slide_content}\n    </div>\n'
Wrap(slide) == WrapOpen \o slide \o WrapClose

\* ReportFound that gives up when no slide was found
ReportFoundAbort ==
    /\ pc = "sections"
    /\ i > Len(Sections(body_splits))
    /\ stdout' = Append(stdout, Line("Found", "", Len(slides)))
    /\ IF slides = <<>>
       THEN /\ exit_code' = 1
            /\ pc' = "exit"
            /\ UNCHANGED <<output_html, ai>>
       ELSE /\ output_html' = HeadText(font_faces, all_styles)
            /\ ai' = 1
            /\ pc' = "assemble"
            /\ UNCHANGED exit_code
    /\ UNCHANGED <<fileVars, outfile, content, styleVars, body_splits, i,
                   scanVars, slides, origin>>

\* end of the section loop: print(f"Found ..."), output_html = the shell
ReportFound ==
    /\ pc = "sections"
    /\ i > Len(Sections(body_splits))
    /\ stdout' = Append(stdout, Line("Found", "", Len(slides)))
    /\ output_html' = HeadText(font_faces, all_styles)
    /\ ai' = 1
    /\ pc' = "assemble"
    /\ UNCHANGED exit_code
    /\ UNCHANGED <<fileVars, outfile, content, styleVars, body_splits, i,
                   scanVars, slides, origin>>

\* one iteration of: for i, slide_content in enumerate(slides, 1)
AssembleStep ==
    /\ pc = "assemble"
    /\ ai <= Len(slides)
    /\ output_html' = output_html \o Wrap(slides[ai])
    /\ ai' = ai + 1
    /\ UNCHANGED <<fileVars, outfile, stdout, pc, exit_code, content,
                   styleVars, body_splits, i, scanVars, slides, origin>>

\* output_html += "</body>\n</html>"; f.write(output_html); print(f"Created ...")
WriteOutput ==
    /\ pc = "assemble"
    /\ ai > Len(slides)
    /\ output_html' = output_html \o TailText
    /\ outfile' = [present |-> TRUE, text |-> output_html']
    /\ stdout' = Append(stdout, Line("Created", OutputPath, Len(slides)))
    /\ pc' = "return"
    /\ UNCHANGED <<fileVars, exit_code, content, styleVars, body_splits, i,
                   scanVars, slides, origin, ai>>

\* back in __main__: print("Done!") and the normal end of the process
MainDone ==
    /\ pc = "return"
    /\ stdout' = Append(stdout, Line("Done", "", 0))
    /\ exit_code' = 0
    /\ pc' = "exit"
    /\ UNCHANGED <<fileVars, outfile, content, styleVars, body_splits, i,
                   scanVars, slides, origin, output_html, ai>>

Next ==
    \/ MainMissing
    \/ MainCall
    \/ ReadInput
    \/ StyleStep
    \/ SplitBody
    \/ SkipNoMarker
    \/ SkipNoContainer
    \/ BeginScan
    \/ ScanIter
    \/ ScanExhausted
    \/ AppendSlide
    \/ DropSection
    \/ ReportFound
    \/ AssembleStep
    \/ WriteOutput
    \/ MainDone

Spec == Init /\ [][Next]_vars


(***************************************************************************)
(* Vocabulary of the properties.                                           *)
(***************************************************************************)

\* number of offsets at which pat occurs in s
CountOcc(s, pat) ==
    Cardinality({k \in 0..(Len(s) - Len(pat)) : StartsAt(s, pat, k)})

\* nesting depth of div elements after the tags that start at offsets 0..k
DepthAt(s, k) ==
    Cardinality({j \in 0..k : StartsAt(s, DivOpen, j)})
    - Cardinality({j \in 0..k : StartsAt(s, DivClose, j)})

\* one element: the depth is positive from the opening tag up to the last
\* '</div>', which ends the text and brings the depth back to zero
Balanced(s) ==
    /\ CountOcc(s, DivOpen) = CountOcc(s, DivClose)
    /\ \A k \in 0..(Len(s) - 1) : DepthAt(s, k) >= 0
    /\ StartsAt(s, DivClose, Len(s) - Len(DivClose))
    /\ \A k \in 0..(Len(s) - Len(DivClose) - 1) : DepthAt(s, k) > 0

\* offset just past the '</div>' that matches the tag opening at start, or -1
MatchEnd(t, start) ==
    LET ends == {e \in (start + 1)..Len(t) : Balanced(Slice(t, start, e))}
    IN  IF ends = {} THEN -1 ELSE SetMin(ends)

\* a section with a container element that holds a nested div, is closed
\* by its own '</div>' and is followed by no further div tag
WellFormed(section) ==
    LET t == Unescape(section)
        start == Find(t, ContainerOpen, 0)
        e == MatchEnd(t, start)
    IN  /\ start >= 0
        /\ e >= 0
        /\ CountOcc(Slice(t, start, e), DivOpen) >= 2
        /\ Find(t, DivOpen, e) < 0
        /\ Find(t, DivClose, e) < 0

\* the container element of a well-formed section
ProperFragment(section) ==
    LET t == Unescape(section)
        start == Find(t, ContainerOpen, 0)
    IN  Slice(t, start, MatchEnd(t, start))

\* a section whose container is opened and never closed: counted from the
\* container's opening tag the depth never returns to zero
Unclosed(section) ==
    LET t == Unescape(section)
        start == Find(t, ContainerOpen, 0)
        rest == Slice(t, start, Len(t))
    IN  /\ Contains(section, Marker)
        /\ start >= 0
        /\ \A k \in 0..(Len(rest) - 1) : DepthAt(rest, k) >= 1

Closed(section) == ~Unclosed(section)

SplitDone == exists /\ pc \notin {"main", "read", "styles"}
LoopDone == exists /\ pc \in {"assemble", "return", "exit"}
Finished == exists /\ pc = "exit"

(***************************************************************************)
(* C1 - balance invariant.                                                 *)
(***************************************************************************)

\* C1: every fragment in the slide list has as many '<div' as '</div>', its
\* depth never goes negative in a left-to-right scan and returns to zero
\* exactly at its end, not earlier.
C1_BalanceInvariant == \A k \in 1..Len(slides) : Balanced(slides[k])

(***************************************************************************)
(* C2 - well-formed extraction.                                            *)
(***************************************************************************)

\* C2: once the section loop is over, every well-formed section has
\* contributed exactly one fragment, the text from the container's opening
\* tag through its own matching '</div>', and the reported count is the
\* number of fragments.
C2_WellFormedExtraction ==
    LoopDone =>
        /\ \A j \in 1..Len(Sections(body_splits)) :
              WellFormed(Sections(body_splits)[j]) =>
                 /\ Cardinality({k \in 1..Len(origin) : origin[k] = j}) = 1
                 /\ \E k \in 1..Len(origin) :
                       /\ origin[k] = j
                       /\ slides[k] = ProperFragment(Sections(body_splits)[j])
        /\ \E k \in 1..Len(stdout) :
              stdout[k].kind = "Found" /\ stdout[k].n = Len(slides)

(***************************************************************************)
(* C3 - graceful degradation.                                              *)
(***************************************************************************)

\* C3: a section whose container is never closed contributes no fragment,
\* the loop goes on to the last section, and the slide list is the one the
\* document's other sections yield without it.
C3_GracefulDegradation ==
    /\ \A k \in 1..Len(origin) : ~Unclosed(Sections(body_splits)[origin[k]])
    /\ LoopDone =>
          /\ i = Len(Sections(body_splits)) + 1
          /\ slides = ExtractAll(SelectSeq(Sections(body_splits), Closed))

\* an unclosed section is followed by a section that contributed a fragment
C3_Witness ==
    /\ Finished
    /\ \E j \in 1..Len(Sections(body_splits)) :
          /\ Unclosed(Sections(body_splits)[j])
          /\ \E k \in 1..Len(origin) : origin[k] > j

(***************************************************************************)
(* C4 - order preservation.                                                *)
(***************************************************************************)

\* C4: the fragments are in the order of their source sections, one per
\* section at most, each cut out of its own section; the written document
\* is the shell, then one wrapper per fragment in the same order, then the
\* closing tags.
C4_OrderPreservation ==
    /\ Len(origin) = Len(slides)
    /\ \A a, b \in 1..Len(origin) : a < b => origin[a] < origin[b]
    /\ \A k \in 1..Len(origin) :
          Contains(Unescape(Sections(body_splits)[origin[k]]), slides[k])
    /\ Finished =>
          /\ outfile.text = output_html
          /\ output_html =
                HeadText(font_faces, all_styles)
                \o Flatten([k \in 1..Len(slides) |-> Wrap(slides[k])])
                \o TailText

\* two different fragments were extracted and assembled
C4_Witness ==
    /\ Finished
    /\ Len(slides) >= 2
    /\ slides[1] # slides[2]

(***************************************************************************)
(* C5 - style deduplication.                                               *)
(***************************************************************************)

\* index of the first occurrence of x in m
FirstPos(m, x) == SetMin({j \in 1..Len(m) : m[j] = x})

\* C5: once the style loop is over, no text occurs twice in unique_styles,
\* every matched text longer than the threshold occurs in it, the texts are
\* in the order of their first occurrences, a second run over the same
\* matches gives the same sequence and a run over unique_styles gives
\* unique_styles.
C5_StyleDedup ==
    SplitDone =>
        /\ \A a, b \in 1..Len(unique_styles) :
              a # b => unique_styles[a] # unique_styles[b]
        /\ \A j \in 1..Len(style_matches) :
              Len(style_matches[j]) > MinStyleLen =>
                 \E a \in 1..Len(unique_styles) :
                    unique_styles[a] = style_matches[j]
        /\ \A a \in 1..Len(unique_styles) :
              \E j \in 1..Len(style_matches) :
                 unique_styles[a] = style_matches[j]
        /\ \A a, b \in 1..Len(unique_styles) :
              a < b => FirstPos(style_matches, unique_styles[a])
                          < FirstPos(style_matches, unique_styles[b])
        /\ DedupStyles(style_matches) = unique_styles
        /\ DedupStyles(unique_styles) = unique_styles

\* a text that passes the filter was matched twice, after another kept text
C5_Witness ==
    /\ Finished
    /\ Len(unique_styles) = 2
    /\ \E a, b \in 1..Len(style_matches) :
          /\ a < b
          /\ style_matches[a] = style_matches[b]
          /\ style_matches[a] = unique_styles[2]

(***************************************************************************)
(* C6 - minimum-length filter.                                             *)
(***************************************************************************)

\* C6: at every point of the run each element of unique_styles is longer
\* than the threshold; a text of the threshold's length or less is never an
\* element, whether or not it was seen before.
C6_MinLengthFilter ==
    /\ \A a \in 1..Len(unique_styles) : Len(unique_styles[a]) > MinStyleLen
    /\ \A j \in 1..Len(style_matches) :
          Len(style_matches[j]) <= MinStyleLen =>
             \A a \in 1..Len(unique_styles) :
                unique_styles[a] # style_matches[j]

\* the first and only match has exactly the threshold's length and is dropped
C6_Witness ==
    /\ Finished
    /\ Len(style_matches) >= 1
    /\ Len(style_matches[1]) = MinStyleLen
    /\ \A j \in 1..Len(style_matches) : style_matches[j] = style_matches[1]
    /\ unique_styles = <<>>

(***************************************************************************)
(* C7 - missing input file.                                                *)
(***************************************************************************)

\* C7: when the input file does not exist the program never gets past the
\* check: the only line it prints is the error naming the input path, it
\* ends with exit status 1, and no step changes the output file.
C7_MissingInput ==
    /\ [](~exists =>
            /\ pc \in {"main", "exit"}
            /\ content = <<>> /\ slides = <<>> /\ output_html = <<>>
            /\ pc = "exit" =>
                  /\ exit_code = 1
                  /\ stdout = <<Line("Error", InputPath, 0)>>)
    /\ [][~exists => outfile' = outfile]_vars

\* the run ended on the missing file and an older output file is still there
C7_Witness ==
    /\ ~exists
    /\ pc = "exit"
    /\ outfile = [present |-> TRUE, text |-> OldOutput]

(***************************************************************************)
(* C8 - split bound.                                                       *)
(***************************************************************************)

\* the text after the first '<body>', empty when there is none
AfterFirstDelim(s) ==
    LET f == Find(s, BodyDelim, 0)
    IN  IF f < 0 THEN <<>> ELSE Slice(s, f + Len(BodyDelim), Len(s))

\* C8: with k occurrences of '<body>' in the document there are at most k
\* sections to scan, the loop index never passes k + 1, at most k fragments
\* are extracted, each from one of the sections 1..k, and none at all when
\* the class name occurs only before the first '<body>'.
C8_SplitBound ==
    SplitDone =>
        LET k == CountOcc(content, BodyDelim)
        IN  /\ Len(Sections(body_splits)) <= k
            /\ i <= k + 1
            /\ Len(slides) <= k
            /\ \A a \in 1..Len(origin) : origin[a] \in 1..k
            /\ ~Contains(AfterFirstDelim(content), Marker) => slides = <<>>

\* the text before the first '<body>' holds a container the scan would cut
\* out, and the run extracted nothing
C8_Witness ==
    /\ Finished
    /\ CountOcc(content, BodyDelim) >= 1
    /\ ExtractSection(body_splits[1]) # <<>>
    /\ slides = <<>>

(***************************************************************************)
(* C9 - zero slides is not fatal.                                          *)
(***************************************************************************)

\* the part of the written document after the shell
BodyPart == Slice(output_html, Len(HeadText(font_faces, all_styles)), Len(output_html))

\* position of a control point in the order the program passes them
Rank(p) ==
    CASE p = "main" -> 0
      [] p = "read" -> 1
      [] p = "styles" -> 2
      [] p = "sections" -> 3
      [] p = "scan" -> 4
      [] p = "endscan" -> 5
      [] p = "assemble" -> 6
      [] p = "return" -> 7
      [] p = "exit" -> 8

InSectionLoop(p) == p \in {"sections", "scan", "endscan"}

\* a step that brings the run nearer to its end: a later control point, or
\* the next element of the loop the run is in, or a cursor further on
Advances ==
    \/ ~InSectionLoop(pc) /\ Rank(pc') > Rank(pc)
    \/ InSectionLoop(pc) /\ ~InSectionLoop(pc') /\ Rank(pc') > Rank(pc)
    \/ pc = "styles" /\ pc' = "styles" /\ si' = si + 1
    \/ InSectionLoop(pc) /\ InSectionLoop(pc') /\ i' = i + 1
    \/ InSectionLoop(pc) /\ InSectionLoop(pc') /\ i' = i /\ Rank(pc') > Rank(pc)
    \/ pc = "scan" /\ pc' = "scan" /\ i' = i /\ pos' > pos
    \/ pc = "assemble" /\ pc' = "assemble" /\ ai' = ai + 1

\* the loop counters and the cursor stay within the data they run over
Bounded ==
    /\ si \in 1..(Len(style_matches) + 1)
    /\ SplitDone => i \in 1..(Len(Sections(body_splits)) + 1)
    /\ ai \in 1..(Len(slides) + 1)
    /\ pc = "scan" => pos \in 0..Len(slide_html)

\* C9: when the input file exists every step brings the run nearer to its
\* end within bounded loops, and the run can end only at the normal end:
\* exit status 0, the output file written with the assembled document, and
\* the three report lines printed.  When no fragment was extracted the
\* written document is the shell followed by the closing tags, holds no
\* slide wrapper, and the reported counts are 0.
C9_ZeroSlidesNotFatal ==
    /\ [][exists => Advances]_vars
    /\ [](exists => Bounded)
    /\ [](Finished =>
            /\ exit_code = 0
            /\ outfile = [present |-> TRUE, text |-> output_html]
            /\ stdout = <<Line("Found", "", Len(slides)),
                          Line("Created", OutputPath, Len(slides)),
                          Line("Done", "", 0)>>)
    /\ [](Finished /\ slides = <<>> =>
            /\ outfile.text = HeadText(font_faces, all_styles) \o TailText
            /\ ~Contains(BodyPart, <<"<","d","i","v"," ","c","l","a","s","s","=","\"","s","l","i","d","e","\"",">">>)
            /\ \A k \in 1..Len(stdout) : stdout[k].n = 0)

\* a document with a container element ended with no slide and a written file
C9_Witness ==
    /\ Finished
    /\ exit_code = 0
    /\ slides = <<>>
    /\ Contains(content, ContainerOpen)
    /\ outfile.present

(***************************************************************************)
(* C10 - scan termination.                                                 *)
(***************************************************************************)

\* C10: the cursor stays within the text; every iteration of the scan loop
\* either leaves the loop or moves the cursor strictly forward, so the
\* distance to the end of the text shrinks and the loop ends; the cursor
\* never moves backward and the nesting counter is never negative.
C10_ScanTermination ==
    /\ [](pc = "scan" => pos \in 0..Len(slide_html))
    /\ [](div_count >= 0)
    /\ [][pc = "scan" =>
            /\ pc' \in {"scan", "endscan"}
            /\ pc' = "scan" =>
                  Len(slide_html') - pos' < Len(slide_html) - pos
            /\ pos' >= pos
            /\ div_count' >= 0]_vars

\* a scan went down through a nested '</div>' and the loop ended
C10_Witness ==
    /\ pc = "endscan"
    /\ pos > container_start + DivOpenSkip
    /\ CountOcc(slide_html, DivClose) >= 2
    /\ container_end < 0
====
